---- MODULE Spec2Model ----
(***************************************************************************)
(* The booking sheet of a barbershop service (ServiceItem) and the booking *)
(* store it reads and writes.  Several browsers (Clients) run the same     *)
(* component against one store.                                            *)
(*                                                                         *)
(* A Date is the number of minutes since day 0, 00:00 local time; a        *)
(* time-of-day string "HH:MM" is the sequence of its characters, a digit   *)
(* being its value and ":" being Colon.                                    *)
(***************************************************************************)
EXTENDS Integers, Sequences, FiniteSets, Bags, TLC

\* ---------------------------------------------------------------- bounds
MaxDay == 2
MaxTicks == 2
MaxFetches == 2
MaxBookings == 3
MaxLen == 3

\* ------------------------------------------------------------- constants
Colon == 58
NoDate == -1
Undefined == <<>>
NoCall == [phase |-> "none"]
NoExit == [path |-> "none", newDate |-> NoDate]

Clients == {"c1", "c2"}
\* the props of each mounted component, and the id of its session's user
barbershop == [c \in Clients |-> [id |-> "b1"]]
service == [c \in Clients |-> [id |-> "s1"]]
userOf == [c \in Clients |-> [id |-> c]]

MinutesPerDay == 24 * 60
\* operating-hours policy of the slot generator
OpeningTime == 9 * 60
ClosingTime == 10 * 60 + 30
Granularity == 45

VARIABLES
  now,              \* the wall clock, a Date
  store,            \* the Booking table
  session,          \* per client: "none" or "user" (useSession's data?.user)
  date,             \* useState: selected Date or NoDate
  hour,             \* useState: selected "HH:MM" or Undefined
  submitIsLoading,  \* useState
  sheetIsOpen,      \* useState
  dayBookings,      \* useState: the bookings last set by refreshAvailableHours
  dayBookingsOf,    \* the date argument of the fetch that set dayBookings
  fetches,          \* per client: the bag of dates of the getDayBookings calls in flight
  saveCall,         \* per client: the saveBooking call in flight, or NoCall
  lastExit,         \* per client: how handleBookingSubmit last ended
  fM, fB, fOut, fPc \* the availability filter taken alone: inputs, output, step

vars == <<now, store, session, date, hour, submitIsLoading, sheetIsOpen,
          dayBookings, dayBookingsOf, fetches, saveCall, lastExit,
          fM, fB, fOut, fPc>>

compVars == <<date, hour, submitIsLoading, sheetIsOpen, dayBookings, dayBookingsOf>>
filterVars == <<fM, fB, fOut, fPc>>

\* ------------------------------------------------------- dates and strings
getHours(t) == (t \div 60) % 24
getMinutes(t) == t % 60
startOfDay(t) == t - (t % MinutesPerDay)
endOfDay(t) == startOfDay(t) + MinutesPerDay - 1
DayOf(t) == t \div MinutesPerDay
TimeOfDay(t) == t % MinutesPerDay

\* date-fns: the Date with its hours (minutes) replaced; out-of-range values
\* roll over as Date.prototype.setHours does
setHours(d, h) == startOfDay(d) + h * 60 + getMinutes(d)
setMinutes(d, m) == d - getMinutes(d) + m

\* String.prototype.split(":")[i] for i = 0, 1
SepIndex(s) == CHOOSE i \in 1..Len(s) : s[i] = Colon /\ \A j \in 1..(i - 1) : s[j] # Colon
SplitPart(s, i) ==
  IF \A k \in 1..Len(s) : s[k] # Colon
  THEN IF i = 0 THEN s ELSE <<>>
  ELSE IF i = 0 THEN SubSeq(s, 1, SepIndex(s) - 1)
       ELSE SubSeq(s, SepIndex(s) + 1, Len(s))

\* Number(string of decimal digits); Number("") is 0
RECURSIVE Number(_)
Number(ds) ==
  IF ds = <<>> THEN 0
  ELSE Number(SubSeq(ds, 1, Len(ds) - 1)) * 10 + ds[Len(ds)]

\* format(date, "HH:mm")
Pad2(n) == <<n \div 10, n % 10>>
FormatTime(t) == Pad2(getHours(t)) \o <<Colon>> \o Pad2(getMinutes(t))

\* --------------------------------------------------------- slot generator
RECURSIVE SlotsFrom(_, _)
SlotsFrom(d, t) ==
  IF t >= ClosingTime THEN <<>>
  ELSE <<FormatTime(startOfDay(d) + t)>> \o SlotsFrom(d, t + Granularity)

generateDayTimeList(d) == SlotsFrom(d, OpeningTime)

Range(s) == {s[i] : i \in 1..Len(s)}

\* ------------------------------------------------------ availability filter
\* the callback with the minutes left out of the comparison
HasBookingHourOnly(time, bookings) ==
  \E booking \in BagToSet(bookings) : getHours(booking.date) = Number(SplitPart(time, 0))

\* dayBookings.find(...) of the filter callback: is there a booking at `time`
HasBooking(time, bookings) ==
  LET timeHour == Number(SplitPart(time, 0))
      timeMinutes == Number(SplitPart(time, 1))
  IN \E booking \in BagToSet(bookings) :
       /\ getHours(booking.date) = timeHour
       /\ getMinutes(booking.date) = timeMinutes

FilterAvailable(times, bookings) ==
  SelectSeq(times, LAMBDA time : ~HasBooking(time, bookings))

\* useMemo(..., [date, dayBookings])
timeList(c) ==
  IF date[c] = NoDate THEN <<>>
  ELSE FilterAvailable(generateDayTimeList(date[c]), dayBookings[c])

\* ------------------------------------------------------------ booking store
\* The store and every list of bookings is a bag of Booking rows: the rows' ids
\* are opaque and never read, so two rows equal in every other field are two
\* copies of one element.
\* listBookingsForDay: the bookings of the business within the calendar day
getDayBookings(s, shopId, d) ==
  LET rows == {b \in BagToSet(s) : /\ b.barbershopId = shopId
                                   /\ b.date >= startOfDay(d)
                                   /\ b.date <= endOfDay(d)}
  IN [b \in rows |-> s[b]]

Booking(shopId, serviceId, userId, d) ==
  [barbershopId |-> shopId, serviceId |-> serviceId, userId |-> userId, date |-> d]

\* saveBooking on the server: the row is inserted as given
saveBooking(s, args) ==
  s (+) SetToBag({Booking(args.barbershopId, args.serviceId, args.userId, args.date)})

\* bookings other customers made before the components were mounted
InitialStore ==
  SetToBag({Booking("b2", "s1", "u0", MinutesPerDay + OpeningTime)})

\* the days of the calendar, as Dates at 00:00
CalendarDays == {d * MinutesPerDay : d \in 0..MaxDay}

\* ------------------------------------------------------------------- Init
Init ==
  /\ now = 0
  /\ store = InitialStore
  /\ session = [c \in Clients |-> "none"]
  /\ date = [c \in Clients |-> NoDate]
  /\ hour = [c \in Clients |-> Undefined]
  /\ submitIsLoading = [c \in Clients |-> FALSE]
  /\ sheetIsOpen = [c \in Clients |-> FALSE]
  /\ dayBookings = [c \in Clients |-> EmptyBag]
  /\ dayBookingsOf = [c \in Clients |-> NoDate]
  /\ fetches = [c \in Clients |-> EmptyBag]
  /\ saveCall = [c \in Clients |-> NoCall]
  /\ lastExit = [c \in Clients |-> NoExit]
  /\ fM = <<>>
  /\ fB = {}
  /\ fOut = <<>>
  /\ fPc = "off"


\* ---------------------------------------------------------------- actions
isAuthenticated(c) == session[c] = "user"

\* the "Reservar" sheet trigger: handleBookingClick, then the sheet opens
handleBookingClick(c) ==
  /\ ~sheetIsOpen[c]
  /\ sheetIsOpen' = [sheetIsOpen EXCEPT ![c] = TRUE]
  /\ UNCHANGED <<now, store, session, date, hour, submitIsLoading, dayBookings,
                 dayBookingsOf, fetches, saveCall, lastExit, filterVars>>

\* the user signs in (signIn('google') of handleBookingClick, or elsewhere in the
\* application) and returns to the page: the component is mounted anew.  The
\* isAuthenticated prop and useSession's data?.user are taken to agree.
signInReturns(c) ==
  /\ ~isAuthenticated(c)
  /\ session' = [session EXCEPT ![c] = "user"]
  /\ date' = [date EXCEPT ![c] = NoDate]
  /\ hour' = [hour EXCEPT ![c] = Undefined]
  /\ submitIsLoading' = [submitIsLoading EXCEPT ![c] = FALSE]
  /\ sheetIsOpen' = [sheetIsOpen EXCEPT ![c] = FALSE]
  /\ dayBookings' = [dayBookings EXCEPT ![c] = EmptyBag]
  /\ dayBookingsOf' = [dayBookingsOf EXCEPT ![c] = NoDate]
  /\ fetches' = [fetches EXCEPT ![c] = EmptyBag]
  /\ lastExit' = [lastExit EXCEPT ![c] = NoExit]
  /\ UNCHANGED <<now, store, saveCall, filterVars>>

\* onOpenChange(false)
closeSheet(c) ==
  /\ sheetIsOpen[c]
  /\ sheetIsOpen' = [sheetIsOpen EXCEPT ![c] = FALSE]
  /\ UNCHANGED <<now, store, session, date, hour, submitIsLoading, dayBookings,
                 dayBookingsOf, fetches, saveCall, lastExit, filterVars>>

\* Calendar fromDate={addDays(new Date(), 1)}: the first day that can be clicked
fromDate == startOfDay(now + MinutesPerDay)

\* handleDateClick without its setHour(undefined)
handleDateClickKeepsHour(c, d) ==
  LET value == IF date[c] = d THEN NoDate ELSE d
  IN /\ sheetIsOpen[c]
     /\ d >= fromDate
     /\ date' = [date EXCEPT ![c] = value]
     /\ IF value = NoDate
        THEN UNCHANGED fetches
        ELSE /\ BagCardinality(fetches[c]) < MaxFetches
             /\ fetches' = [fetches EXCEPT ![c] = @ (+) SetToBag({value})]
     /\ UNCHANGED <<now, store, session, hour, submitIsLoading, sheetIsOpen, dayBookings,
                    dayBookingsOf, saveCall, lastExit, filterVars>>

\* a click on day d of the calendar: handleDateClick(value), value being undefined
\* when the selected day is clicked again; then the effect on [date] runs and,
\* with a date, calls getDayBookings
handleDateClick(c, d) ==
  LET value == IF date[c] = d THEN NoDate ELSE d
  IN /\ sheetIsOpen[c]
     /\ d >= fromDate
     /\ date' = [date EXCEPT ![c] = value]
     /\ hour' = [hour EXCEPT ![c] = Undefined]
     /\ IF value = NoDate
        THEN UNCHANGED fetches
        ELSE /\ BagCardinality(fetches[c]) < MaxFetches
             /\ fetches' = [fetches EXCEPT ![c] = @ (+) SetToBag({value})]
     /\ UNCHANGED <<now, store, session, submitIsLoading, sheetIsOpen, dayBookings,
                    dayBookingsOf, saveCall, lastExit, filterVars>>

\* refreshAvailableHours resumes after await getDayBookings(barbershop.id, d):
\* setDayBookings(_dayBookings).  The answer is the store's content for that day
\* read when the answer arrives: an older answer is the state this step leaves
\* once the store has changed since.
refreshAvailableHours(c, d) ==
  /\ BagIn(d, fetches[c])
  /\ dayBookings' = [dayBookings EXCEPT ![c] = getDayBookings(store, barbershop[c].id, d)]
  /\ dayBookingsOf' = [dayBookingsOf EXCEPT ![c] = d]
  /\ fetches' = [fetches EXCEPT ![c] = @ (-) SetToBag({d})]
  /\ UNCHANGED <<now, store, session, date, hour, submitIsLoading, sheetIsOpen,
                 saveCall, lastExit, filterVars>>

\* a click on one of the time buttons, rendered from timeList while a date is set
handleHourClick(c, time) ==
  /\ sheetIsOpen[c]
  /\ date[c] # NoDate
  /\ time \in Range(timeList(c))
  /\ hour' = [hour EXCEPT ![c] = time]
  /\ UNCHANGED <<now, store, session, date, submitIsLoading, sheetIsOpen, dayBookings,
                 dayBookingsOf, fetches, saveCall, lastExit, filterVars>>

\* a button that is not disabled while a submission is running
confirmDisabledIgnoresLoading(c) == hour[c] = Undefined \/ date[c] = NoDate

\* disabled={!hour || !date || submitIsLoading}
confirmDisabled(c) == hour[c] = Undefined \/ date[c] = NoDate \/ submitIsLoading[c]

\* newDate with the minutes read from the wrong part of the split
newDateWrongPart(d, h) ==
  LET dateHour == Number(SplitPart(h, 0))
      dateMinutes == Number(SplitPart(h, 0))
  IN setMinutes(setHours(d, dateHour), dateMinutes)

\* setMinutes(setHours(date, dateHour), dateMinutes)
newDate(d, h) ==
  LET dateHour == Number(SplitPart(h, 0))
      dateMinutes == Number(SplitPart(h, 1))
  IN setMinutes(setHours(d, dateHour), dateMinutes)

\* if (!hour || !date || !data?.user)
missingInput(c) == hour[c] = Undefined \/ date[c] = NoDate \/ ~isAuthenticated(c)

\* "Confirmar reserva": handleBookingSubmit up to its return or its await
handleBookingSubmit(c) ==
  /\ sheetIsOpen[c]
  /\ ~confirmDisabled(c)
  /\ IF missingInput(c)
     THEN /\ lastExit' = [lastExit EXCEPT ![c] = [path |-> "returned", newDate |-> NoDate]]
          /\ submitIsLoading' = [submitIsLoading EXCEPT ![c] = FALSE]
          /\ UNCHANGED saveCall
     ELSE /\ UNCHANGED lastExit
          /\ submitIsLoading' = [submitIsLoading EXCEPT ![c] = TRUE]
          /\ saveCall' = [saveCall EXCEPT ![c] =
                [phase |-> "sent", lostRace |-> FALSE,
                 serviceId |-> service[c].id, barbershopId |-> barbershop[c].id,
                 date |-> newDate(date[c], hour[c]), userId |-> userOf[c].id]]
  /\ UNCHANGED <<now, store, session, date, hour, sheetIsOpen, dayBookings,
                 dayBookingsOf, fetches, filterVars>>

\* is there a booking of the business at exactly this date-time
SlotTaken(s, shopId, d) ==
  \E b \in BagToSet(s) : b.barbershopId = shopId /\ b.date = d

\* the server runs saveBooking and answers; lostRace notes whether the slot was
\* another booking's already
saveBookingRuns(c) ==
  /\ saveCall[c].phase = "sent"
  /\ BagCardinality(store) < MaxBookings
  /\ store' = saveBooking(store, saveCall[c])
  /\ saveCall' = [saveCall EXCEPT ![c] =
        [@ EXCEPT !.phase = "ok",
                  !.lostRace = SlotTaken(store, saveCall[c].barbershopId, saveCall[c].date)]]
  /\ UNCHANGED <<now, session, compVars, fetches, lastExit, filterVars>>

\* the call fails (storage fault, timeout): nothing is written
saveBookingFails(c) ==
  /\ saveCall[c].phase = "sent"
  /\ saveCall' = [saveCall EXCEPT ![c] = [@ EXCEPT !.phase = "rejected"]]
  /\ UNCHANGED <<now, store, session, compVars, fetches, lastExit, filterVars>>

\* handleBookingSubmit resumes after await saveBooking(...): lines 78-89, finally
handleBookingSubmitResumes(c) ==
  /\ saveCall[c].phase = "ok"
  /\ sheetIsOpen' = [sheetIsOpen EXCEPT ![c] = FALSE]
  /\ hour' = [hour EXCEPT ![c] = Undefined]
  /\ date' = [date EXCEPT ![c] = NoDate]
  /\ submitIsLoading' = [submitIsLoading EXCEPT ![c] = FALSE]
  /\ lastExit' = [lastExit EXCEPT ![c] = [path |-> "confirmed", newDate |-> saveCall[c].date]]
  /\ saveCall' = [saveCall EXCEPT ![c] = NoCall]
  /\ UNCHANGED <<now, store, session, dayBookings, dayBookingsOf, fetches, filterVars>>

\* a catch block that calls saveBooking again
handleBookingSubmitRetries(c) ==
  /\ saveCall[c].phase = "rejected"
  /\ saveCall' = [saveCall EXCEPT ![c] = [@ EXCEPT !.phase = "sent"]]
  /\ UNCHANGED <<now, store, session, compVars, fetches, lastExit, filterVars>>

\* a catch block with no finally after it
handleBookingSubmitCatchesNoFinally(c) ==
  /\ saveCall[c].phase = "rejected"
  /\ lastExit' = [lastExit EXCEPT ![c] = [path |-> "caught", newDate |-> NoDate]]
  /\ saveCall' = [saveCall EXCEPT ![c] = NoCall]
  /\ UNCHANGED <<now, store, session, compVars, fetches, filterVars>>

\* a handler whose lines 78-89 run after a failed call as well
handleBookingSubmitCatchesAsSuccess(c) ==
  /\ saveCall[c].phase = "rejected"
  /\ sheetIsOpen' = [sheetIsOpen EXCEPT ![c] = FALSE]
  /\ hour' = [hour EXCEPT ![c] = Undefined]
  /\ date' = [date EXCEPT ![c] = NoDate]
  /\ submitIsLoading' = [submitIsLoading EXCEPT ![c] = FALSE]
  /\ lastExit' = [lastExit EXCEPT ![c] = [path |-> "confirmed", newDate |-> saveCall[c].date]]
  /\ saveCall' = [saveCall EXCEPT ![c] = NoCall]
  /\ UNCHANGED <<now, store, session, dayBookings, dayBookingsOf, fetches, filterVars>>

\* the await throws: catch (console.error), finally
handleBookingSubmitCatches(c) ==
  /\ saveCall[c].phase = "rejected"
  /\ submitIsLoading' = [submitIsLoading EXCEPT ![c] = FALSE]
  /\ lastExit' = [lastExit EXCEPT ![c] = [path |-> "caught", newDate |-> NoDate]]
  /\ saveCall' = [saveCall EXCEPT ![c] = NoCall]
  /\ UNCHANGED <<now, store, session, date, hour, sheetIsOpen, dayBookings,
                 dayBookingsOf, fetches, filterVars>>

\* another customer's browser runs the same handleBookingSubmit for a day of its
\* calendar and a time its list offers (the whole list while its dayBookings is
\* still empty), and its saveBooking is run
otherCustomerBooks(d, time) ==
  /\ d >= fromDate
  /\ time \in Range(generateDayTimeList(d))
  /\ BagCardinality(store) < MaxBookings
  /\ store' = saveBooking(store, [serviceId |-> "s1", barbershopId |-> "b1",
                                  date |-> newDate(d, time), userId |-> "u0"])
  /\ UNCHANGED <<now, session, compVars, fetches, saveCall, lastExit, filterVars>>

\* a day passes
Tick ==
  /\ now < MaxTicks * MinutesPerDay
  /\ now' = now + MinutesPerDay
  /\ UNCHANGED <<store, session, compVars, fetches, saveCall, lastExit, filterVars>>

\* one browser and the other customers
Next ==
  \/ \E d \in CalendarDays : \E time \in Range(generateDayTimeList(d)) :
       otherCustomerBooks(d, time)
  \/ handleBookingClick("c1")
  \/ signInReturns("c1")
  \/ closeSheet("c1")
  \/ \E d \in CalendarDays : handleDateClick("c1", d)
  \/ \E d \in CalendarDays : refreshAvailableHours("c1", d)
  \/ \E time \in Range(timeList("c1")) : handleHourClick("c1", time)
  \/ handleBookingSubmit("c1")
  \/ saveBookingRuns("c1")
  \/ saveBookingFails("c1")
  \/ handleBookingSubmitResumes("c1")
  \/ handleBookingSubmitCatches("c1")

Spec == Init /\ [][Next]_vars

\* the same with the clock running
NextClock == Next \/ Tick

SpecClock == Init /\ [][NextClock]_vars

\* two signed-in browsers booking day 1 of the same barbershop
InitRace ==
  /\ now = 0
  /\ store = InitialStore
  /\ session = [c \in Clients |-> "user"]
  /\ date = [c \in Clients |-> NoDate]
  /\ hour = [c \in Clients |-> Undefined]
  /\ submitIsLoading = [c \in Clients |-> FALSE]
  /\ sheetIsOpen = [c \in Clients |-> FALSE]
  /\ dayBookings = [c \in Clients |-> EmptyBag]
  /\ dayBookingsOf = [c \in Clients |-> NoDate]
  /\ fetches = [c \in Clients |-> EmptyBag]
  /\ saveCall = [c \in Clients |-> NoCall]
  /\ lastExit = [c \in Clients |-> NoExit]
  /\ fM = <<>>
  /\ fB = {}
  /\ fOut = <<>>
  /\ fPc = "off"

NextRace ==
  \E c \in Clients :
    \/ handleBookingClick(c)
    \/ handleDateClick(c, MinutesPerDay)
    \/ refreshAvailableHours(c, MinutesPerDay)
    \/ \E time \in Range(timeList(c)) : handleHourClick(c, time)
    \/ handleBookingSubmit(c)
    \/ saveBookingRuns(c)
    \/ handleBookingSubmitResumes(c)

SpecRace == InitRace /\ [][NextRace]_vars

\* one browser alone, from "Reservar" to the end of each of its submissions:
\* sign-in, every day of its calendar, failing saveBooking calls
NextAttempt ==
  \/ handleBookingClick("c1")
  \/ signInReturns("c1")
  \/ closeSheet("c1")
  \/ \E d \in CalendarDays : handleDateClick("c1", d)
  \/ \E d \in CalendarDays : refreshAvailableHours("c1", d)
  \/ \E time \in Range(timeList("c1")) : handleHourClick("c1", time)
  \/ handleBookingSubmit("c1")
  \/ saveBookingRuns("c1")
  \/ saveBookingFails("c1")
  \/ handleBookingSubmitResumes("c1")
  \/ handleBookingSubmitCatches("c1")

SpecAttempt == Init /\ [][NextAttempt]_vars

\* the saveBooking call completes (with an answer or with a failure), and the
\* handler is resumed by the event loop once its await has settled
saveBookingCompletes == saveBookingRuns("c1") \/ saveBookingFails("c1")

SpecAttemptFair ==
  /\ SpecAttempt
  /\ WF_vars(saveBookingCompletes)
  /\ WF_vars(handleBookingSubmitResumes("c1"))
  /\ WF_vars(handleBookingSubmitCatches("c1"))

\* the availability filter alone, on every slot sequence of at most MaxLen times
\* of TimesPool and every set of bookings of BookingPool
TimesPool == {OpeningTime, OpeningTime + Granularity, OpeningTime + 60}
BookingPool ==
  { Booking("b1", "s1", "u0", MinutesPerDay + OpeningTime),
    Booking("b1", "s1", "u0", MinutesPerDay + OpeningTime + Granularity),
    Booking("b1", "s1", "u0", MinutesPerDay + OpeningTime + 60),
    Booking("b1", "s1", "u0", 2 * MinutesPerDay + OpeningTime + Granularity) }

\* the candidate slots: the times fM as the generator writes them
fS == [i \in 1..Len(fM) |-> FormatTime(fM[i])]

InitFilter ==
  /\ now = 0
  /\ store = InitialStore
  /\ session = [c \in Clients |-> "none"]
  /\ date = [c \in Clients |-> NoDate]
  /\ hour = [c \in Clients |-> Undefined]
  /\ submitIsLoading = [c \in Clients |-> FALSE]
  /\ sheetIsOpen = [c \in Clients |-> FALSE]
  /\ dayBookings = [c \in Clients |-> EmptyBag]
  /\ dayBookingsOf = [c \in Clients |-> NoDate]
  /\ fetches = [c \in Clients |-> EmptyBag]
  /\ saveCall = [c \in Clients |-> NoCall]
  /\ lastExit = [c \in Clients |-> NoExit]
  /\ fM \in UNION {[1..n -> TimesPool] : n \in 0..MaxLen}
  /\ fB \in SUBSET BookingPool
  /\ fOut = <<>>
  /\ fPc = "input"

applyFilter ==
  /\ fPc = "input"
  /\ fOut' = FilterAvailable(fS, SetToBag(fB))
  /\ fPc' = "done"
  /\ UNCHANGED <<now, store, session, compVars, fetches, saveCall, lastExit, fM, fB>>

NextFilter == applyFilter

SpecFilter == InitFilter /\ [][NextFilter]_vars

\* ----------------------------------------------------------------- claims
SameSlot(a, b) ==
  /\ a.barbershopId = b.barbershopId
  /\ DayOf(a.date) = DayOf(b.date)
  /\ getHours(a.date) = getHours(b.date)
  /\ getMinutes(a.date) = getMinutes(b.date)

\* C1: no two Bookings of the store are for the same business, the same calendar
\* day and the same time-of-day (hour and minute).
C1_NoDoubleBooking ==
  \A a \in BagToSet(store) : \A b \in BagToSet(store) :
    SameSlot(a, b) => (a = b /\ CopiesIn(a, store) = 1)

\* C2: of two saveBooking calls that are in flight together for the same
\* (business, day, time-of-day), at most one is answered with success, so at most
\* one of the two attempts ends Confirmed.
C2_AtMostOneConfirmed ==
  \A c \in Clients : \A k \in Clients :
    (c # k /\ saveCall[c].phase = "ok" /\ saveCall[k].phase = "ok")
      => ~SameSlot(saveCall[c], saveCall[k])

\* what a fetch of the day's bookings made at this moment, run through the
\* availability filter, says of the selected hour
FreshlyFree(c) ==
  ~HasBooking(hour[c], getDayBookings(store, barbershop[c].id, date[c]))

\* C3: whenever a reservation attempt issues the call that writes the booking,
\* the chosen slot is free in the day's bookings as fetched within that attempt
\* (the attempt runs from the click to the call in one step, so such a fetch reads
\* the store as it is at that step).
C3_WriteAfterFreshCheck ==
  [][\A c \in Clients :
       (saveCall[c].phase = "none" /\ saveCall'[c].phase = "sent") => FreshlyFree(c)]_vars

\* the indices of fM whose time no booking of fB has
Keep == {i \in 1..Len(fM) : \A b \in fB : TimeOfDay(b.date) # fM[i]}

\* C4: the filter's output is exactly the slots of the input sequence that no
\* booking has the hour and minute of, in the order they have in the input.
C4_FilterExact ==
  fPc = "done" =>
    /\ Len(fOut) = Cardinality(Keep)
    /\ \A i \in Keep : fOut[Cardinality({j \in Keep : j <= i})] = FormatTime(fM[i])

\* a run of the filter that drops one of two slots of the same hour and keeps
\* the other
C4_Witness ==
  /\ fPc = "done"
  /\ Len(fM) = 3
  /\ Len(fOut) = 1
  /\ \E i \in 1..3 : \E j \in 1..3 :
       /\ i \in Keep
       /\ j \notin Keep
       /\ getHours(fM[i]) = getHours(fM[j])

\* what the user of the sheet can see of the component
Shown(c) ==
  [date |-> date[c], hour |-> hour[c], submitIsLoading |-> submitIsLoading[c],
   sheetIsOpen |-> sheetIsOpen[c], timeList |-> timeList(c),
   toast |-> IF lastExit[c].path = "confirmed" THEN lastExit[c].newDate ELSE NoDate]

\* C5: a submission with no day, no time-of-day or no user ends with a rejection
\* that is reported (Rejected, InvalidRequest): the step that rejects it shows
\* the caller something.  It calls no saveBooking and leaves the store as it is.
C5_MissingInputRejected ==
  [][\A c \in Clients :
       (lastExit'[c].path = "returned" /\ lastExit'[c] # lastExit[c])
         => (store' = store /\ saveCall' = saveCall /\ Shown(c)' # Shown(c))]_vars

\* C6: when saveBooking rejects, what the caller sees after the failed attempt
\* differs from what it would see had no attempt been made (the same selection,
\* nothing loading).
C6_FaultSurfaced ==
  [][\A c \in Clients :
       (saveCall[c].phase = "rejected" /\ saveCall'[c].phase = "none")
         => Shown(c)' # [Shown(c) EXCEPT !.submitIsLoading = FALSE]]_vars

\* C7: the step that ends an attempt without confirming it leaves the selected
\* day and time-of-day as they are; an attempt whose slot was another booking's
\* when it was committed (SlotTaken) is not confirmed, keeps the day, clears the
\* time-of-day and fetches the day's bookings again.
C7_RejectionKeepsSelection ==
  [][\A c \in Clients :
       /\ (lastExit'[c] # lastExit[c] /\ lastExit'[c].path \in {"returned", "caught"})
            => (date'[c] = date[c] /\ hour'[c] = hour[c])
       /\ (saveCall[c].phase = "ok" /\ saveCall[c].lostRace /\ saveCall'[c].phase = "none")
            => /\ lastExit'[c].path # "confirmed"
               /\ date'[c] = date[c]
               /\ hour'[c] = Undefined
               /\ BagCardinality(fetches'[c]) > BagCardinality(fetches[c])]_vars

\* the times of day the operating-hours policy has a slot at
SlotTimes ==
  {t \in OpeningTime..(ClosingTime - 1) : (t - OpeningTime) % Granularity = 0}

C9_BookingInFuture ==
  [][\A c \in Clients :
       (saveCall[c].phase = "none" /\ saveCall'[c].phase = "sent")
         => saveCall'[c].date > now]_vars

\* C10: with a day selected and no getDayBookings call in flight, dayBookings is
\* the result of the call issued for that day.
C10_DayBookingsOfSelectedDay ==
  \A c \in Clients :
    (date[c] # NoDate /\ fetches[c] = EmptyBag) => dayBookingsOf[c] = date[c]

\* the commit of c's attempt: its pending saveBooking call is answered and the
\* store gains the one row of its arguments
Commit(c) ==
  /\ saveCall[c].phase = "sent"
  /\ saveCall'[c].phase = "ok"
  /\ store' = store (+) SetToBag({Booking(saveCall[c].barbershopId, saveCall[c].serviceId,
                                          saveCall[c].userId, saveCall[c].date)})

\* C11: the store changes only in the commit step of an attempt, which adds
\* exactly one booking (that of the attempt); selecting a day, receiving the
\* day's bookings, selecting an hour, the input check, a failing call and the
\* end of the handler leave the store alone, and a call that was answered or
\* has failed is never sent again
C11_OnlyCommitWrites ==
  [][/\ store' # store => \E c \in Clients : Commit(c)
     /\ \A c \in Clients :
       /\ (saveCall[c].phase = "sent" /\ saveCall'[c].phase = "ok")
            => BagCardinality(store') = BagCardinality(store) + 1
       /\ saveCall[c].phase \in {"ok", "rejected"}
            => saveCall'[c].phase \in {saveCall[c].phase, "none"}
       /\ (lastExit'[c] # lastExit[c] /\ lastExit'[c].path \in {"returned", "caught"})
            => store' = store]_vars

\* an attempt was confirmed and the store holds the one booking it created
C11_Witness ==
  /\ lastExit["c1"].path = "confirmed"
  /\ BagCardinality(store) = BagCardinality(InitialStore) + 1
  /\ CopiesIn(Booking(barbershop["c1"].id, service["c1"].id, userOf["c1"].id,
                      lastExit["c1"].newDate), store) = 1

\* C12: a selected hour is one of the times the list offers for the selected day
\* with the dayBookings the component holds now
C12_HourInTimeList ==
  \A c \in Clients : hour[c] # Undefined => hour[c] \in Range(timeList(c))

\* C13: after every step a selected hour comes with a selected date; a step that
\* changes the date (to another day or to no date) leaves no hour selected, and
\* a step that selects an hour is taken with a date selected and keeps it
C13_HourImpliesDate ==
  [][\A c \in Clients :
       /\ hour'[c] # Undefined => date'[c] # NoDate
       /\ date'[c] # date[c] => hour'[c] = Undefined
       /\ (hour'[c] # hour[c] /\ hour'[c] # Undefined)
            => (date[c] # NoDate /\ date'[c] = date[c])]_vars

\* an hour is selected on a day that was selected after another day, whose
\* bookings the component still holds
C13_Witness ==
  /\ hour["c1"] # Undefined
  /\ date["c1"] # NoDate
  /\ dayBookingsOf["c1"] \notin {NoDate, date["c1"]}

\* C14: a step that sends a saveBooking call is taken with no call of the same
\* component pending or unhandled, with an hour and a date selected and
\* submitIsLoading false, and sets submitIsLoading; submitIsLoading stays true
\* until the handler has finished with the call
C14_OneSaveInFlight ==
  [][\A c \in Clients :
       /\ (saveCall'[c] # saveCall[c] /\ saveCall'[c].phase = "sent")
            => /\ saveCall[c].phase = "none"
               /\ hour[c] # Undefined /\ date[c] # NoDate
               /\ ~submitIsLoading[c]
               /\ submitIsLoading'[c]
       /\ saveCall'[c].phase # "none" => submitIsLoading'[c]]_vars

\* a call is pending while the selection is one that a second click would send
\* as a different call
C14_Witness ==
  /\ saveCall["c1"].phase = "sent"
  /\ sheetIsOpen["c1"]
  /\ hour["c1"] # Undefined /\ date["c1"] # NoDate
  /\ newDate(date["c1"], hour["c1"]) # saveCall["c1"].date

\* C15: whenever submitIsLoading is true it is false again later, given that
\* the saveBooking call completes and the handler is resumed; and it is false
\* whenever the component has no call pending or unhandled
C15_LoadingEnds ==
  \A c \in Clients :
    /\ submitIsLoading[c] ~> ~submitIsLoading[c]
    /\ [](saveCall[c].phase = "none" => ~submitIsLoading[c])

\* a submission has ended on the failure path and the button is released
C15_Witness ==
  /\ lastExit["c1"].path = "caught"
  /\ saveCall["c1"].phase = "none"
  /\ ~submitIsLoading["c1"]
  /\ hour["c1"] # Undefined

\* C16: the success notification is shown only by a step that handles the
\* successful answer of this attempt's saveBooking call, an answer that exists
\* only once the booking was written; the handling of a failed call and the
\* early return leave the sheet, the hour, the date and the notification as
\* they were; and, the remount after sign-in apart, the sheet is closed and the
\* date cleared in one step only by the handling of a successful answer
C16_SuccessEffectsAfterSave ==
  [][\A c \in Clients :
       /\ (lastExit'[c] # lastExit[c] /\ lastExit'[c].path = "confirmed")
            => (saveCall[c].phase = "ok" /\ lastExit'[c].newDate = saveCall[c].date)
       /\ (saveCall[c].phase # "ok" /\ saveCall'[c].phase = "ok") => Commit(c)
       /\ ( (saveCall[c].phase = "rejected" /\ saveCall'[c].phase = "none")
            \/ (lastExit'[c] # lastExit[c] /\ lastExit'[c].path = "returned") )
            => ( sheetIsOpen'[c] = sheetIsOpen[c] /\ hour'[c] = hour[c]
                 /\ date'[c] = date[c] /\ lastExit'[c].path # "confirmed" )
       /\ (session'[c] = session[c] /\ sheetIsOpen[c] /\ ~sheetIsOpen'[c]
             /\ date[c] # NoDate /\ date'[c] = NoDate)
            => saveCall[c].phase = "ok"]_vars

\* the success effects have happened for the last slot of the last day, after a
\* booking of it was written
C16_Witness ==
  /\ lastExit["c1"] = [path |-> "confirmed",
                       newDate |-> MaxDay * MinutesPerDay + OpeningTime + Granularity]
  /\ ~sheetIsOpen["c1"]
  /\ hour["c1"] = Undefined
  /\ date["c1"] = NoDate
  /\ \E b \in BagToSet(store) : b.userId = userOf["c1"].id /\ b.date = lastExit["c1"].newDate

====
